---- MODULE Spec2Model ----
(***************************************************************************)
(* A model of zug/util.hpp: the primitive callables identity, identity_    *)
(* and constantly, the composition chain detail::composed, its builders    *)
(* comp and operator|, and its invocation detail::invoke_composition.      *)
(*                                                                         *)
(* A C++ expression result is modelled with its value category and the     *)
(* storage it designates: [cat, loc, val].  cat is "prvalue" (a value of   *)
(* its own), "lvalue" (T&), "clvalue" (const T&) or "xvalue" (T&&).  loc   *)
(* names the storage a reference designates: an argument of the caller     *)
(* ("arg": a named variable, "temp": a temporary of the caller's full      *)
(* expression), the value captured inside a stored callable ("fn", with    *)
(* the path of tuple indices leading to it), a temporary materialised in   *)
(* a frame of invoke_composition_impl ("tmp") or such a temporary after    *)
(* its frame has returned ("dead": the reference dangles).                 *)
(*                                                                         *)
(* Tuple indices are 1-based here: index i of the model is std::get<i-1>.  *)
(***************************************************************************)
EXTENDS Integers, Sequences, FiniteSets, TLC

VARIABLES c, prov, inv, x, k, out

vars == <<c, prov, inv, x, k, out>>

\* Bounds of the model.
MaxLen == 3
MaxArgs == 2
MaxVal == 1

\* Data values.  0 doubles as the empty state a moved-from object of a
\* move-sensitive type (a string, a smart pointer) is left in.
Val == 0..MaxVal

Cats == {"lvalue", "clvalue", "xvalue"}

\* What a move leaves behind: the old value (trivially copyable T, or a
\* moved-from object that happens to keep it) or the empty state.
MoveOutcomes == {"keeps", "empties"}

Emptied(mv, v) == IF mv = "empties" THEN 0 ELSE v

NoLoc == [kind |-> "none", ix |-> <<>>]

Prvalue(v) == [cat |-> "prvalue", loc |-> NoLoc, val |-> v]

Ref(cat, kind, ix, v) == [cat |-> cat, loc |-> [kind |-> kind, ix |-> ix], val |-> v]

NoRes == [cat |-> "void", loc |-> NoLoc, val |-> 0]

NoExc == [by |-> <<>>, what |-> 0]

Returned(res, moved) == [ok |-> TRUE, res |-> res, exc |-> NoExc, moved |-> moved]

Thrown(by, what) == [ok |-> FALSE, res |-> NoRes, exc |-> [by |-> by, what |-> what], moved |-> <<>>]

(***************************************************************************)
(* Callable values: [k, n, fns].                                           *)
(***************************************************************************)
NoObj == [k |-> "none", n |-> 0, fns |-> <<>>]

identity == [k |-> "identity", n |-> 0, fns |-> <<>>]

identity_ == [k |-> "identity_", n |-> 0, fns |-> <<>>]

\* constantly(v): constantly_t<decay_t<T>>{value}.
constantly(v) == [k |-> "constantly", n |-> v, fns |-> <<>>]

\* User-supplied callables: 1 increments, 2 requires a non-zero input and
\* throws otherwise.  Both take their arguments by const reference, add them
\* up and return a temporary.
FnIds == {1, 2}

Fn(id) == [k |-> "fn", n |-> id, fns |-> <<>>]

FnValue(id, s) == IF id = 1 THEN (s + 1) % (MaxVal + 1) ELSE s % (MaxVal + 1)

FnThrows(id, s) == id = 2 /\ s % (MaxVal + 1) = 0

RECURSIVE SumVals(_)
SumVals(args) == IF args = <<>> THEN 0 ELSE Head(args).val + SumVals(Tail(args))

fn_call(fn, args, self) ==
    LET s == SumVals(args)
    IN  IF FnThrows(fn.n, s) THEN Thrown(self, s)
        ELSE Returned(Prvalue(FnValue(fn.n, s)), <<>>)

(***************************************************************************)
(* The primitive callables' call operators.                                *)
(***************************************************************************)
\* identity_t::operator()(T&& x) const -> decltype(auto): return ZUG_FWD(x).
\* decltype(auto) of std::forward<T>(x) is T& for an lvalue argument and T&&
\* for an rvalue one: the parameter itself is handed back, never a copy.
identity_t(args) == Returned(args[1], <<>>)

\* A faulty identity_: returns the forwarded parameter as identity does.
identity__t_ref(args) == Returned(args[1], <<>>)

\* identity__t::operator()(T&& x) const -> auto: return ZUG_FWD(x).
\* auto decays: the result is a new object, copied from an lvalue argument
\* and move-constructed from an rvalue one (which is then moved from).
identity__t(args) ==
    Returned(Prvalue(args[1].val),
             IF args[1].cat = "xvalue" THEN <<args[1].loc>> ELSE <<>>)

\* A faulty constantly_t: the member is value-initialised, not captured.
constantly_t_default(fn, fcat, self) == Returned(Ref(fcat, "fn", self, 0), <<>>)

\* constantly_t<T>::operator()(ArgTs&&...) &, const&, &&: T&, const T&, T&&
\* to the member value, whatever the arguments.
constantly_t(fn, fcat, self) == Returned(Ref(fcat, "fn", self, fn.n), <<>>)

(***************************************************************************)
(* detail::composed and its builders.                                      *)
(***************************************************************************)
\* composed<Fn, Fns...>(TupleFns&&): base_t{fns}.
composed(fns) == [k |-> "composed", n |-> 0, fns |-> fns]

is_composed_v(t) == t.k = "composed"

\* A faulty to_function_tuple: a chain is stored as one element.
to_function_tuple_nested(t) == <<t>>

\* to_function_tuple: a chain gives its tuple (as_tuple), anything else a
\* one-element tuple (std::make_tuple).
to_function_tuple(t) == IF is_composed_v(t) THEN t.fns ELSE <<t>>

make_composed(fns) == composed(fns)

RECURSIVE tuple_cat(_)
tuple_cat(ts) == IF ts = <<>> THEN <<>> ELSE Head(ts) \o tuple_cat(Tail(ts))

\* comp(F&&) for one input: composed<decay_t<F>>{f}, the input stored as the
\* single element whatever it is.  comp(Fn&&, Fns&&...) for more: the
\* concatenation of the inputs' function tuples.
comp(ins) ==
    IF Len(ins) = 1 THEN composed(<<ins[1]>>)
    ELSE make_composed(tuple_cat([i \in 1..Len(ins) |-> to_function_tuple(ins[i])]))

\* A faulty operator|: enabled only when both operands are chains.
operator_pipe_both(lhs, rhs) ==
    IF is_composed_v(lhs) /\ is_composed_v(rhs)
    THEN [applies |-> TRUE, obj |-> comp(<<lhs, rhs>>)]
    ELSE [applies |-> FALSE, obj |-> NoObj]

\* detail::operator|(Lhs&&, Rhs&&), enabled when either operand is a chain.
operator_pipe(lhs, rhs) ==
    IF is_composed_v(lhs) \/ is_composed_v(rhs)
    THEN [applies |-> TRUE, obj |-> comp(<<lhs, rhs>>)]
    ELSE [applies |-> FALSE, obj |-> NoObj]

(***************************************************************************)
(* Invocation.                                                             *)
(***************************************************************************)
\* A faulty operator(): every path hands over std::move(*this).as_tuple().
as_tuple_moved(cat) == "xvalue"

\* composed::operator() &, const&, && hand invoke_composition as_tuple() as
\* base_t&, const base_t&, base_t&&; std::get<Index>(std::forward<Fns>(fns))
\* gives each element that category.
as_tuple(cat) ==
    CASE cat = "lvalue" -> "lvalue"
      [] cat = "clvalue" -> "clvalue"
      [] cat = "xvalue" -> "xvalue"

\* The result of one stage as the argument Args&& of the next apply: a
\* prvalue is materialised into a temporary of the calling frame and
\* forwarded as an rvalue; a reference is forwarded as it is.
forward_result(res, at) ==
    IF res.cat = "prvalue" THEN Ref("xvalue", "tmp", at, res.val) ELSE res

\* A faulty apply: the caller's arguments are forwarded along with the result.
apply_args_again(args, res, at) == <<forward_result(res, at)>> \o args

\* apply<Index - 1>(fns, compat::invoke(get<Index>(fns), args...)): the next
\* stage receives one argument, the result of this one.
apply_args(args, res, at) == <<forward_result(res, at)>>

\* A faulty apply: a failure of a stage is swallowed and the fold goes on.
propagates_never(r) == FALSE

\* An exception thrown by compat::invoke leaves apply before the call of
\* apply<Index - 1> is entered; nothing catches it.
propagates(r) == ~r.ok

\* The temporaries of the apply frames are destroyed when invoke_composition
\* returns: a reference to one of them dangles from then on.
Expire(res, base) ==
    IF res.loc.kind = "tmp" /\ Len(res.loc.ix) > Len(base)
    THEN [res EXCEPT !.loc.kind = "dead"]
    ELSE res

RECURSIVE invoke(_, _, _, _)
RECURSIVE invoke_composition_impl(_, _, _, _, _, _)
RECURSIVE invoke_composition(_, _, _, _)
RECURSIVE composed_call(_, _, _, _)

\* compat::invoke(f, args...): f(args...) for a callable object.
invoke(fn, fcat, args, self) ==
    CASE fn.k = "fn" -> fn_call(fn, args, self)
      [] fn.k = "identity" -> identity_t(args)
      [] fn.k = "identity_" -> identity__t(args)
      [] fn.k = "constantly" -> constantly_t(fn, fcat, self)
      [] fn.k = "composed" ->
            LET r == composed_call(fn, fcat, args, self)
            IN  [ok |-> r.ok, res |-> r.res, exc |-> r.exc, moved |-> r.moved]

\* invoke_composition_impl<Index>::apply; Index = 1 is the specialisation
\* invoke_composition_impl<0>.  acc collects the calls made so far.
invoke_composition_impl(Index, fns, tcat, args, base, acc) ==
    LET self == Append(base, Index)
        r == invoke(fns[Index], tcat, args, self)
        acc2 == [calls |-> Append(acc.calls,
                                  [ix |-> Index, args |-> args, ok |-> r.ok, res |-> r.res]),
                 moved |-> acc.moved \o r.moved]
    IN  IF propagates(r)
        THEN [ok |-> FALSE, res |-> NoRes, exc |-> r.exc,
              moved |-> acc2.moved, calls |-> acc2.calls]
        ELSE IF Index = 1
        THEN [ok |-> r.ok, res |-> r.res, exc |-> r.exc,
              moved |-> acc2.moved, calls |-> acc2.calls]
        ELSE invoke_composition_impl(Index - 1, fns, tcat,
                                     apply_args(args, r.res, self), base, acc2)

\* invoke_composition(fns, args...): starts at the last element, Size - 1.
invoke_composition(fns, tcat, args, base) ==
    LET Size == Len(fns)
        r == invoke_composition_impl(Size, fns, tcat, args, base,
                                     [calls |-> <<>>, moved |-> <<>>])
    IN  [r EXCEPT !.res = Expire(r.res, base)]

\* composed::operator()(T&&... xs), the overload chosen by the category of
\* the chain expression.
composed_call(obj, cat, args, base) ==
    invoke_composition(obj.fns, as_tuple(cat), args, base)

\* Static well-formedness of a call: identity and identity_ take exactly one
\* argument, a chain what its last element takes.
RECURSIVE Accepts(_, _)
Accepts(fn, nargs) ==
    CASE fn.k \in {"identity", "identity_"} -> nargs = 1
      [] fn.k = "composed" -> Accepts(fn.fns[Len(fn.fns)], nargs)
      [] OTHER -> TRUE

\* The stored callables after the storage at path has been moved from.
RECURSIVE MoveOut(_, _, _)
MoveOut(fns, path, mv) ==
    IF Len(path) = 1
    THEN [fns EXCEPT ![path[1]].n = Emptied(mv, @)]
    ELSE [fns EXCEPT ![path[1]].fns = MoveOut(@, Tail(path), mv)]

RECURSIVE MoveAll(_, _, _)
MoveAll(fns, locs, mv) ==
    IF locs = <<>> THEN fns
    ELSE MoveAll(IF Head(locs).kind = "fn" THEN MoveOut(fns, Head(locs).ix, mv) ELSE fns,
                 Tail(locs), mv)

(***************************************************************************)
(* The inputs of the builds and of the invocations.                        *)
(***************************************************************************)
\* The callables chains are built from; the captured value is MaxVal.
PlainCallables == {Fn(id) : id \in FnIds} \cup {identity, identity_, constantly(MaxVal)}

PlainSeqs == UNION {[1..m -> PlainCallables] : m \in 1..MaxLen}

\* The chains the builds of plain callables produce, and the chains a build
\* from one such chain produces.
FlatChains == {comp(s) : s \in PlainSeqs}

WrappedChains == {comp(<<ch>>) : ch \in FlatChains}

\* The inputs of a build: plain callables and existing chains, by the number
\* of callables they hold.
TermsOf[n \in 1..MaxLen] ==
    {ch \in FlatChains : Len(ch.fns) = n} \cup (IF n = 1 THEN PlainCallables ELSE {})

\* The ways to share out at most n callables among the inputs of a build.
RECURSIVE SumOf(_)
SumOf(v) == IF v = <<>> THEN 0 ELSE Head(v) + SumOf(Tail(v))

Compositions(n) == {v \in UNION {[1..m -> 1..n] : m \in 1..n} : SumOf(v) <= n}

\* The input lists whose i-th input holds v[i] callables.
RECURSIVE ListsOf(_)
ListsOf(v) ==
    IF v = <<>> THEN {<<>>}
    ELSE LET rest == ListsOf(Tail(v))
         IN  {<<t>> \o s : t \in TermsOf[Head(v)], s \in rest}

\* Input lists of at most n stored callables in all.
BuildInputs(n) == UNION {ListsOf(v) : v \in Compositions(n)}

\* The operand pairs tried with the chain operator.
OperandPairs(n) == UNION {ListsOf(v) : v \in {w \in Compositions(n) : Len(w) = 2}}

\* Argument lists: n arguments, all lvalues (named variables of the caller)
\* or all rvalues (temporaries of the caller's full expression).
ArgKind(cat) == IF cat = "xvalue" THEN "temp" ELSE "arg"

ArgLists ==
    {<<>>} \cup
    {[i \in 1..n |-> Ref(cat, ArgKind(cat), <<i>>, v)] :
        n \in 1..MaxArgs, cat \in {"lvalue", "xvalue"}, v \in Val}

(***************************************************************************)
(* State.  c: the chain object under consideration; prov: the build that   *)
(* made it; inv: the invocation of c in progress in the caller's current   *)
(* full expression, with the calls it made and what the caller got.        *)
(* x, k, out: a variable of the caller, a constantly_t object and the      *)
(* result of the last call of a primitive callable.                        *)
(***************************************************************************)
NoProv == [op |-> "none", ins |-> <<>>, applies |-> FALSE]

Idle ==
    [st |-> "idle", cat |-> "none", args |-> <<>>, fns0 |-> <<>>, ok |-> TRUE,
     res |-> NoRes, exc |-> NoExc, calls |-> <<>>, seen |-> 0]

\* k: the constantly_t object, the value it captured at construction, whether
\* a caller has since moved from or written through a result of it, and the
\* call paths used so far.
NoK == [obj |-> NoObj, orig |-> 0, touched |-> FALSE, used |-> {}]

\* out: the primitive called last, its argument(s), the result expression,
\* the value it yielded (the value of the result object itself when that is
\* a prvalue), whether the caller has written to input or result since, and
\* whether k was touched before the call.
NoOut ==
    [op |-> "none", arg |-> NoRes, nargs |-> 0, res |-> NoRes, own |-> 0,
     age |-> "none", pre |-> FALSE]

ChainIdle == c = NoObj /\ prov = NoProv /\ inv = Idle

\* The caller's variables.
Vars == {1, 2}

PrimIdle == x = [i \in Vars |-> 0] /\ k = NoK /\ out = NoOut

(***************************************************************************)
(* Building chains.                                                        *)
(***************************************************************************)
Build(ins) ==
    /\ prov.op = "none"
    /\ c' = comp(ins)
    /\ prov' = [op |-> "comp", ins |-> ins, applies |-> TRUE]
    /\ UNCHANGED <<inv, x, k, out>>

ChainOp(lhs, rhs) ==
    /\ prov.op = "none"
    /\ LET p == operator_pipe(lhs, rhs)
       IN  /\ c' = p.obj
           /\ prov' = [op |-> "pipe", ins |-> <<lhs, rhs>>, applies |-> p.applies]
    /\ UNCHANGED <<inv, x, k, out>>

\* The built object goes out of scope.
Destroy ==
    /\ prov.op # "none"
    /\ c' = NoObj
    /\ prov' = NoProv
    /\ UNCHANGED <<inv, x, k, out>>

InitComp == ChainIdle /\ PrimIdle

NextComp ==
    \/ prov.op = "none" /\ \E ins \in BuildInputs(MaxLen) : Build(ins)
    \/ prov.op = "none" /\ \E ops \in OperandPairs(MaxLen) : ChainOp(ops[1], ops[2])
    \/ Destroy

SpecComp == InitComp /\ [][NextComp]_vars

(***************************************************************************)
(* Invoking a chain.                                                       *)
(***************************************************************************)
\* What the caller reads when it initialises a value from the result: the
\* designated value, or anything at all through a dangling reference.
SeenChoices(r) ==
    IF ~r.ok THEN {0}
    ELSE IF r.res.loc.kind = "dead" THEN Val
    ELSE {r.res.val}

\* The caller's initialisation moves from an rvalue result.
CallerMoves(r) == IF r.ok /\ r.res.cat = "xvalue" THEN <<r.res.loc>> ELSE <<>>

InvokeChain(cat, args, mv) ==
    /\ inv.st = "idle"
    /\ is_composed_v(c)
    /\ Accepts(c, Len(args))
    /\ LET r == composed_call(c, cat, args, <<>>)
       IN  /\ c' = [c EXCEPT !.fns = MoveAll(@, r.moved \o CallerMoves(r), mv)]
           /\ \E s \in SeenChoices(r) :
                 inv' = [st |-> "done", cat |-> cat, args |-> args, fns0 |-> c.fns,
                         ok |-> r.ok, res |-> r.res, exc |-> r.exc,
                         calls |-> r.calls, seen |-> s]
    /\ UNCHANGED <<prov, x, k, out>>

\* The caller's full expression ends.
Release ==
    /\ inv.st = "done"
    /\ inv' = Idle
    /\ UNCHANGED <<c, prov, x, k, out>>

InitInvoke ==
    /\ c \in FlatChains \cup WrappedChains
    /\ prov = NoProv
    /\ inv = Idle
    /\ PrimIdle

NextInvoke ==
    \/ inv.st = "idle" /\
          \E cat \in Cats, args \in ArgLists, mv \in MoveOutcomes : InvokeChain(cat, args, mv)
    \/ Release

SpecInvoke == InitInvoke /\ [][NextInvoke]_vars

(***************************************************************************)
(* Calling the primitive callables directly.                               *)
(***************************************************************************)
\* The argument expressions for a one-argument call: a variable x[i] as T&
\* or const T&, std::move(x[i]), or a temporary.
PrimArgs ==
    {Ref(cat, "arg", <<i>>, x[i]) : cat \in Cats, i \in Vars} \cup
    {Ref("xvalue", "temp", <<1>>, v) : v \in Val}

\* The value the result designates now.
Read(o) ==
    CASE o.res.loc.kind = "arg" -> x[o.res.loc.ix[1]]
      [] o.res.loc.kind = "fn" -> k.obj.n
      [] OTHER -> o.own

\* The variables among the storage moved from.
MovedVars(moved) == {moved[i].ix[1] : i \in {j \in 1..Len(moved) : moved[j].kind = "arg"}}

CallIdentity(a) ==
    /\ LET r == invoke(identity, "clvalue", <<a>>, <<>>)
       IN  out' = [op |-> "identity", arg |-> a, nargs |-> 1, res |-> r.res,
                   own |-> r.res.val, age |-> "fresh", pre |-> FALSE]
    /\ UNCHANGED <<c, prov, inv, x, k>>

CallIdentity_(a, mv) ==
    /\ LET r == invoke(identity_, "clvalue", <<a>>, <<>>)
       IN  /\ out' = [op |-> "identity_", arg |-> a, nargs |-> 1, res |-> r.res,
                      own |-> r.res.val, age |-> "fresh", pre |-> FALSE]
           /\ MovedVars(r.moved) # {} \/ mv = "keeps"
           /\ x' = [i \in Vars |-> IF i \in MovedVars(r.moved) THEN Emptied(mv, x[i]) ELSE x[i]]
    /\ UNCHANGED <<c, prov, inv, k>>

\* The caller assigns v through the result: to the storage a T& or T&&
\* designates, or to the result object itself.
WriteResult(v) ==
    /\ out.op # "none"
    /\ out.res.cat \in {"prvalue", "lvalue", "xvalue"}
    /\ v # Read(out)
    /\ x' = IF out.res.loc.kind = "arg" THEN [x EXCEPT ![out.res.loc.ix[1]] = v] ELSE x
    /\ k' = IF out.res.loc.kind = "fn"
            THEN [k EXCEPT !.obj.n = v, !.touched = TRUE]
            ELSE k
    /\ out' = [out EXCEPT !.own = IF out.res.loc.kind \in {"arg", "fn"} THEN @ ELSE v,
                          !.age = "used"]
    /\ UNCHANGED <<c, prov, inv>>

\* The caller assigns v to its variable x[i].
WriteInput(i, v) ==
    /\ v # x[i]
    /\ x' = [x EXCEPT ![i] = v]
    /\ out' = IF out.op = "none" THEN out ELSE [out EXCEPT !.age = "used"]
    /\ UNCHANGED <<c, prov, inv, k>>

\* k = constantly(v).
Constantly(v) ==
    /\ k' = [obj |-> constantly(v), orig |-> v, touched |-> FALSE, used |-> {}]
    /\ out' = NoOut
    /\ UNCHANGED <<c, prov, inv, x>>

\* k(args...), std::as_const(k)(args...) or std::move(k)(args...); the caller
\* binds the result to a reference or initialises a value from it, which
\* moves from an rvalue result.
CallConstantly(cat, args, use, mv) ==
    /\ k.obj # NoObj
    /\ LET r == invoke(k.obj, cat, args, <<>>)
           moves == use = "value" /\ r.res.cat = "xvalue"
       IN  /\ moves \/ mv = "keeps"
           /\ k' = [k EXCEPT !.obj.n = IF moves THEN Emptied(mv, @) ELSE @,
                             !.touched = @ \/ moves,
                             !.used = @ \cup {cat}]
           /\ out' = [op |-> "constantly", arg |-> NoRes, nargs |-> Len(args),
                      res |-> IF use = "value" THEN Prvalue(r.res.val) ELSE r.res,
                      own |-> r.res.val, age |-> "fresh", pre |-> k.touched]
    /\ UNCHANGED <<c, prov, inv, x>>

InitPrim == ChainIdle /\ PrimIdle

NextIdentity ==
    \/ \E a \in PrimArgs : CallIdentity(a)
    \/ \E a \in PrimArgs, mv \in MoveOutcomes : CallIdentity_(a, mv)
    \/ \E v \in Val : WriteResult(v)
    \/ \E i \in Vars, v \in Val : WriteInput(i, v)

SpecIdentity == InitPrim /\ [][NextIdentity]_vars

NextConstantly ==
    \/ \E v \in Val : Constantly(v)
    \/ \E cat \in Cats, args \in ArgLists, use \in {"ref", "value"}, mv \in MoveOutcomes :
          CallConstantly(cat, args, use, mv)
    \/ \E v \in Val : WriteResult(v)

SpecConstantly == InitPrim /\ [][NextConstantly]_vars

(***************************************************************************)
(* The claims.                                                             *)
(***************************************************************************)
\* A forwarded argument is the stage result it was made from: the same
\* expression for a reference, the materialised temporary for a prvalue.
IsForwardOf(arg, res) ==
    /\ arg.val = res.val
    /\ res.cat # "prvalue" => arg = res
    /\ res.cat = "prvalue" => arg.cat = "xvalue" /\ arg.loc.kind = "tmp"

\* Two result expressions of the same category, value and storage path.
SameExpression(a, b) == a.cat = b.cat /\ a.val = b.val /\ a.loc.ix = b.loc.ix

\* C1: an invocation of a chain of N callables calls element N first with
\* all the caller's arguments, then each element below it, down to element
\* 1, exactly once with exactly one argument, the result of the element
\* above, and hands the caller the result of element 1.
C1_RightToLeftFold ==
    inv.st = "done" =>
        LET N == Len(inv.fns0)
            calls == inv.calls
        IN  /\ Len(calls) \in 1..N
            /\ \A i \in 1..Len(calls) : calls[i].ix = N - i + 1
            /\ calls[1].args = inv.args
            /\ \A i \in 2..Len(calls) :
                  /\ Len(calls[i].args) = 1
                  /\ calls[i - 1].ok
                  /\ IsForwardOf(calls[i].args[1], calls[i - 1].res)
            /\ \A i \in 1..Len(calls) :
                  LET d == invoke(inv.fns0[calls[i].ix], inv.cat, calls[i].args,
                                  <<calls[i].ix>>)
                  IN  calls[i].ok = d.ok /\ calls[i].res = d.res
            /\ inv.ok =>
                  /\ Len(calls) = N
                  /\ SameExpression(inv.res, calls[N].res)

C1_Witness ==
    /\ inv.st = "done"
    /\ inv.ok
    /\ Len(inv.fns0) >= 3
    /\ Len(inv.args) >= 2
    /\ inv.res.cat = "prvalue"

\* The number of callables an input of a build holds, and what they are.
InputLength(t) == IF t.k = "composed" THEN Len(t.fns) ELSE 1

InputElements(t) == IF t.k = "composed" THEN t.fns ELSE <<t>>

RECURSIVE SumLengths(_)
SumLengths(ins) == IF ins = <<>> THEN 0 ELSE InputLength(Head(ins)) + SumLengths(Tail(ins))

RECURSIVE AllElements(_)
AllElements(ins) ==
    IF ins = <<>> THEN <<>> ELSE InputElements(Head(ins)) \o AllElements(Tail(ins))

\* C2: every build from one or more inputs, plain callables or chains,
\* gives one flat chain: as long as the inputs together, holding the inputs'
\* elements in input order, none of them a chain.
C2_BuildIsFlat ==
    prov.op = "comp" =>
        /\ c.k = "composed"
        /\ Len(c.fns) = SumLengths(prov.ins)
        /\ c.fns = AllElements(prov.ins)
        /\ \A i \in 1..Len(c.fns) : c.fns[i].k # "composed"

\* The callables <<f, g, h>> of a build of one of the three shapes
\* comp(comp(f, g), h), comp(f, comp(g, h)), comp(f, g, h) with f, g, h
\* plain; <<>> for any other build.
AssocShape(ins) ==
    LET plain(t) == t.k # "composed"
        pair(t) == t.k = "composed" /\ Len(t.fns) = 2 /\ plain(t.fns[1]) /\ plain(t.fns[2])
    IN  IF Len(ins) = 3 /\ plain(ins[1]) /\ plain(ins[2]) /\ plain(ins[3])
        THEN ins
        ELSE IF Len(ins) = 2 /\ pair(ins[1]) /\ plain(ins[2])
        THEN <<ins[1].fns[1], ins[1].fns[2], ins[2]>>
        ELSE IF Len(ins) = 2 /\ plain(ins[1]) /\ pair(ins[2])
        THEN <<ins[1], ins[2].fns[1], ins[2].fns[2]>>
        ELSE <<>>

\* C3: each of the builds comp(comp(f, g), h), comp(f, comp(g, h)) and
\* comp(f, g, h) gives the flat chain of the three elements f, g, h in that
\* order, and each returns, for every call path and argument list, what the
\* chain [f, g, h] returns.
C3_Associative ==
    (prov.op = "comp" /\ AssocShape(prov.ins) # <<>>) =>
        LET fgh == AssocShape(prov.ins)
        IN  /\ c.k = "composed"
            /\ Len(c.fns) = 3
            /\ \A i \in 1..3 : c.fns[i] = fgh[i] /\ c.fns[i].k # "composed"
            /\ \A cat \in Cats, args \in ArgLists :
                  Accepts(fgh[3], Len(args)) =>
                      composed_call(c, cat, args, <<>>) =
                          composed_call([k |-> "composed", n |-> 0, fns |-> fgh],
                                        cat, args, <<>>)

C3_Witness ==
    /\ prov.op = "comp"
    /\ Len(prov.ins) = 2
    /\ prov.ins[1].k = "composed"
    /\ Len(prov.ins[1].fns) = 2
    /\ prov.ins[2].k = "fn"
    /\ c.fns = <<identity_, constantly(MaxVal), Fn(1)>>

\* C4: for every callable f and input, the chains [identity, f] and
\* [f, identity] hand the caller what a direct call of f hands it: the same
\* failure, or the same value.
C4_IdentityUnit ==
    (inv.st = "done" /\ Len(inv.fns0) = 2 /\ identity \in {inv.fns0[1], inv.fns0[2]}) =>
        LET f == IF inv.fns0[1] = identity THEN inv.fns0[2] ELSE inv.fns0[1]
            d == invoke(f, inv.cat, inv.args, <<1>>)
        IN  /\ inv.ok = d.ok
            /\ d.ok => inv.seen = d.res.val /\ inv.res.loc.kind # "dead"

\* C5: lhs | rhs applies exactly when one of the operands is a chain, and
\* then gives the chain comp(lhs, rhs) gives: the elements of lhs followed
\* by those of rhs.
C5_ChainOperator ==
    prov.op = "pipe" =>
        LET lhs == prov.ins[1]
            rhs == prov.ins[2]
        IN  IF lhs.k = "composed" \/ rhs.k = "composed"
            THEN /\ prov.applies
                 /\ c = comp(<<lhs, rhs>>)
                 /\ c.k = "composed"
                 /\ Len(c.fns) = InputLength(lhs) + InputLength(rhs)
                 /\ c.fns = InputElements(lhs) \o InputElements(rhs)
            ELSE ~prov.applies /\ c = NoObj

C5_Witness ==
    /\ prov.op = "pipe"
    /\ prov.applies
    /\ prov.ins[1].k = "fn"
    /\ prov.ins[2].k = "composed"
    /\ Len(c.fns) = 3

C7_IdentityForwards ==
    out.op = "identity" =>
        /\ (out.arg.loc.kind = "arg" /\ out.arg.cat \in {"lvalue", "clvalue"}) =>
              /\ out.res.cat = out.arg.cat
              /\ out.res.loc = out.arg.loc
              /\ Read(out) = x[out.arg.loc.ix[1]]
        /\ out.arg.loc.kind = "temp" =>
              /\ out.res.cat = "prvalue"
              /\ out.res.loc = NoLoc

\* C8: the result of identity_ is a value of its own equal to the argument:
\* it designates no storage of the caller, a write to it changes no variable
\* of the caller and a write to a variable does not change it.
C8_IdentityValueIndependent ==
    [][out'.op = "identity_" =>
          /\ out'.res.cat = "prvalue"
          /\ out'.res.loc = NoLoc
          /\ out'.age = "fresh" => out'.own = out'.arg.val
          /\ (out.op = "identity_" /\ out'.age = "used") =>
                (x' = x \/ out'.own = out.own)]_vars

C8_Witness ==
    /\ out.op = "identity_"
    /\ out.arg.cat = "lvalue"
    /\ out.arg.loc.kind = "arg"
    /\ out.age = "used"
    /\ out.own # x[out.arg.loc.ix[1]]

\* b is a with the captured values of some of its callables moved from.
RECURSIVE MovedFromOnly(_, _)
MovedFromOnly(a, b) ==
    /\ b.k = a.k
    /\ Len(b.fns) = Len(a.fns)
    /\ IF a.k = "constantly" THEN b.n \in {a.n, 0} ELSE b.n = a.n
    /\ \A i \in 1..Len(a.fns) : MovedFromOnly(a.fns[i], b.fns[i])

\* C9: an invocation of the chain through the mutable or the read-only path
\* leaves its stored callables as they were; an invocation of the chain as a
\* consumed temporary keeps their number and order, calls each at most once
\* and changes one only by moving from it.
C9_AddressableNotConsumed ==
    inv.st = "done" =>
        /\ Len(c.fns) = Len(inv.fns0)
        /\ inv.cat \in {"lvalue", "clvalue"} => c.fns = inv.fns0
        /\ \A i \in 1..Len(inv.fns0) :
              /\ Cardinality({j \in 1..Len(inv.calls) : inv.calls[j].ix = i}) <= 1
              /\ MovedFromOnly(inv.fns0[i], c.fns[i])
              /\ c.fns[i] # inv.fns0[i] =>
                    /\ inv.cat = "xvalue"
                    /\ \E j \in 1..Len(inv.calls) : inv.calls[j].ix = i

C9_Witness ==
    /\ inv.st = "done"
    /\ inv.ok
    /\ inv.cat = "lvalue"
    /\ inv.fns0 = <<identity_, identity, constantly(MaxVal)>>
    /\ c.fns = inv.fns0

\* C10: when the callable at index k fails, the caller gets that failure as
\* the callable raised it, no callable below k has been called and each one
\* above k has been called exactly once, before it.
C10_FailurePropagates ==
    inv.st = "done" =>
        \A i \in 1..Len(inv.calls) :
            ~inv.calls[i].ok =>
                LET kk == inv.calls[i].ix
                    d == invoke(inv.fns0[kk], inv.cat, inv.calls[i].args, <<kk>>)
                IN  /\ ~inv.ok
                    /\ ~d.ok
                    /\ inv.exc = d.exc
                    /\ i = Len(inv.calls)
                    /\ \A j \in 1..Len(inv.calls) : inv.calls[j].ix >= kk
                    /\ \A m \in (kk + 1)..Len(inv.fns0) :
                          Cardinality({j \in 1..(i - 1) : inv.calls[j].ix = m}) = 1

C10_Witness ==
    /\ inv.st = "done"
    /\ ~inv.ok
    /\ Len(inv.fns0) = 3
    /\ Len(inv.calls) = 2
    /\ inv.exc.by = <<2>>

====
